---- MODULE Spec2Model ----
(***************************************************************************)
(* Token codec of auth-sdk (src/source/index.ts): signToken, parseToken,   *)
(* verifyToken, isExpiredTokenPayload and isValidSignPayload, together     *)
(* with the library conversions they call (json-stable-stringify,          *)
(* JSON.parse, crypto-js enc.Utf8 / enc.Base64url / HmacSHA256, dayjs).    *)
(*                                                                         *)
(* Strings are sequences of characters.  A JSON text is a sequence of      *)
(* lexemes (punctuation, string literals, numbers, null); UTF-8 maps a     *)
(* lexeme to one byte, or to a lead and a continuation byte when it holds  *)
(* a non-ASCII character; base64url maps every byte to one character of    *)
(* its alphabet and decodes any other character to zero bits.              *)
(***************************************************************************)
EXTENDS Integers, Sequences, FiniteSets, TLC

(***************************************************************************)
(* Bounds of the model.                                                    *)
(***************************************************************************)
MaxClock == 3
DigestLen == 2

(***************************************************************************)
(* JavaScript values: <<type, content>>.  An object keeps its fields in    *)
(* insertion order, as a sequence of <<key, value>> pairs.                 *)
(***************************************************************************)
Str(s) == <<"string", s>>
Num(s) == <<"number", s>>
Undefined == <<"undefined", "">>
Null == <<"null", "">>
BigInt == <<"bigint", "1n">>
Obj(fields) == <<"object", fields>>

IsStr(v) == v[1] = "string"
IsObj(v) == v[1] = "object"
HasKey(v, k) == IsObj(v) /\ \E i \in 1..Len(v[2]) : v[2][i][1] = k
Get(v, k) ==
  IF HasKey(v, k)
    THEN v[2][CHOOSE i \in 1..Len(v[2]) : v[2][i][1] = k][2]
    ELSE Undefined
Keys(v) == {v[2][i][1] : i \in 1..Len(v[2])}

(***************************************************************************)
(* SignPayloadSchema / isValidSignPayload                                  *)
(***************************************************************************)
isValidSignPayload(payload) ==
  /\ IsObj(payload)
  /\ Get(payload, "expiredTime")[1] \in {"string", "undefined"}
  /\ IsStr(Get(payload, "createdTime"))
  /\ IsObj(Get(payload, "data"))
  /\ IsStr(Get(Get(payload, "data"), "userId"))
  /\ IsStr(Get(Get(payload, "data"), "username"))

(***************************************************************************)
(* The strings, numbers and keys of the model.                             *)
(***************************************************************************)
\* the keys, in the order of the default comparison of Array.prototype.sort
KeyOrder ==
  <<"a", "age", "b", "createdTime", "data", "expiredTime", "userId", "username">>
\* ISO-8601 timestamps: "T1" is the instant 1, "T2" the instant 2
TimeStrings == {"T0", "T1", "T2"}
\* "Zoe" stands for a name with a non-ASCII character (two UTF-8 bytes)
NonAscii == {"Zoe"}
StringUniverse ==
  {KeyOrder[i] : i \in 1..Len(KeyOrder)} \cup TimeStrings \cup NonAscii \cup {"u1"}
NumLex == {"1", "7"}

StrLex(s) == "\"" \o s \o "\""
IsStrLex(l) == \E s \in StringUniverse : StrLex(s) = l
UnLex(l) == CHOOSE s \in StringUniverse : StrLex(s) = l

(***************************************************************************)
(* jsonStringify (json-stable-stringify): keys sorted at every level, a    *)
(* field whose value serialises to undefined is dropped, NaN is written    *)
(* as null, a BigInt makes JSON.stringify throw.                           *)
(***************************************************************************)
\* JSON.stringify's order: the fields as they were inserted
KeepInsertionOrder(fields) == fields

SortFields(fields) ==
  LET present == SelectSeq(KeyOrder,
                   LAMBDA k : \E i \in 1..Len(fields) : fields[i][1] = k)
  IN [j \in 1..Len(present) |->
        <<present[j],
          fields[CHOOSE i \in 1..Len(fields) : fields[i][1] = present[j]][2]>>]

RECURSIVE Join(_)
Join(texts) ==
  IF texts = <<>> THEN <<>>
  ELSE IF Len(texts) = 1 THEN texts[1]
  ELSE texts[1] \o <<",">> \o Join(Tail(texts))

RECURSIVE jsonStringify(_)
RECURSIVE stringifyFields(_)
stringifyFields(fields) ==
  IF fields = <<>> THEN [st |-> "ok", out |-> <<>>]
  ELSE LET value == jsonStringify(fields[1][2]) IN
       IF value.st = "throw" THEN [st |-> "throw", out |-> <<>>]
       ELSE LET rest == stringifyFields(Tail(fields)) IN
            IF rest.st = "throw" \/ value.st = "undefined" THEN rest
            ELSE [st |-> "ok",
                  out |-> << <<StrLex(fields[1][1]), ":">> \o value.text >>
                            \o rest.out]

jsonStringify(node) ==
  CASE node[1] = "undefined" -> [st |-> "undefined", text |-> <<>>]
    [] node[1] = "bigint" -> [st |-> "throw", text |-> <<>>]
    [] node[1] = "null" -> [st |-> "ok", text |-> <<"null">>]
    [] node[1] = "number" ->
         [st |-> "ok", text |-> IF node[2] = "NaN" THEN <<"null">> ELSE <<node[2]>>]
    [] node[1] = "string" -> [st |-> "ok", text |-> <<StrLex(node[2])>>]
    [] node[1] = "object" ->
         LET out == stringifyFields(SortFields(node[2])) IN
         IF out.st = "throw" THEN [st |-> "throw", text |-> <<>>]
         ELSE [st |-> "ok", text |-> <<"{">> \o Join(out.out) \o <<"}">>]

(***************************************************************************)
(* JSON.parse: fails on anything that is not one JSON value; a repeated    *)
(* key keeps its first position and its last value.                        *)
(***************************************************************************)
SetField(fields, k, v) ==
  IF \E i \in 1..Len(fields) : fields[i][1] = k
    THEN [i \in 1..Len(fields) |->
            IF fields[i][1] = k THEN <<k, v>> ELSE fields[i]]
    ELSE Append(fields, <<k, v>>)

SyntaxError == [ok |-> FALSE, val |-> Null, next |-> 0]

RECURSIVE parseValue(_, _)
RECURSIVE parseMembers(_, _, _)
parseValue(text, i) ==
  IF i > Len(text) THEN SyntaxError
  ELSE IF text[i] = "{" THEN
    IF i + 1 <= Len(text) /\ text[i + 1] = "}"
      THEN [ok |-> TRUE, val |-> Obj(<<>>), next |-> i + 2]
      ELSE parseMembers(text, i + 1, <<>>)
  ELSE IF IsStrLex(text[i]) THEN
    [ok |-> TRUE, val |-> Str(UnLex(text[i])), next |-> i + 1]
  ELSE IF text[i] \in NumLex THEN
    [ok |-> TRUE, val |-> Num(text[i]), next |-> i + 1]
  ELSE IF text[i] = "null" THEN
    [ok |-> TRUE, val |-> Null, next |-> i + 1]
  ELSE SyntaxError

parseMembers(text, i, acc) ==
  IF i + 1 > Len(text) \/ ~IsStrLex(text[i]) \/ text[i + 1] # ":" THEN SyntaxError
  ELSE LET v == parseValue(text, i + 2) IN
    IF ~v.ok \/ v.next > Len(text) THEN SyntaxError
    ELSE LET fields == SetField(acc, UnLex(text[i]), v.val) IN
      IF text[v.next] = "}"
        THEN [ok |-> TRUE, val |-> Obj(fields), next |-> v.next + 1]
      ELSE IF text[v.next] = ","
        THEN parseMembers(text, v.next + 1, fields)
      ELSE SyntaxError

JSONparse(text) ==
  LET r == parseValue(text, 1) IN
  IF r.ok /\ r.next = Len(text) + 1 THEN r ELSE SyntaxError

(***************************************************************************)
(* enc.Utf8.parse / enc.Utf8.stringify                                     *)
(***************************************************************************)
NonAsciiLex == {StrLex(s) : s \in NonAscii}
Lead(l) == "lead " \o l
Cont(l) == "cont " \o l
InvalidByte == "xFF"
ZeroByte == "x00"

RECURSIVE Utf8parse(_)
Utf8parse(text) ==
  IF text = <<>> THEN <<>>
  ELSE (IF text[1] \in NonAsciiLex
          THEN <<Lead(text[1]), Cont(text[1])>>
          ELSE <<text[1]>>) \o Utf8parse(Tail(text))

\* throws 'Malformed UTF-8 data' on bytes that are not UTF-8
RECURSIVE Utf8stringify(_)
Utf8stringify(bytes) ==
  IF bytes = <<>> THEN [st |-> "ok", text |-> <<>>]
  ELSE IF \E l \in NonAsciiLex : bytes[1] = Lead(l) THEN
    LET l == CHOOSE l \in NonAsciiLex : bytes[1] = Lead(l) IN
    IF Len(bytes) >= 2 /\ bytes[2] = Cont(l)
      THEN LET rest == Utf8stringify(SubSeq(bytes, 3, Len(bytes))) IN
           IF rest.st = "throw" THEN rest
           ELSE [st |-> "ok", text |-> <<l>> \o rest.text]
      ELSE [st |-> "throw", text |-> <<>>]
  ELSE IF bytes[1] = InvalidByte \/ \E l \in NonAsciiLex : bytes[1] = Cont(l)
    THEN [st |-> "throw", text |-> <<>>]
  ELSE LET rest == Utf8stringify(Tail(bytes)) IN
       IF rest.st = "throw" THEN rest
       ELSE [st |-> "ok", text |-> <<bytes[1]>> \o rest.text]

(***************************************************************************)
(* enc.Base64url.stringify / enc.Base64url.parse                           *)
(***************************************************************************)
LexUniverse ==
  {"{", "}", ",", ":", "null"} \cup NumLex \cup {StrLex(s) : s \in StringUniverse}
ByteUniverse ==
  (LexUniverse \ NonAsciiLex)
    \cup {Lead(l) : l \in NonAsciiLex} \cup {Cont(l) : l \in NonAsciiLex}
    \cup {InvalidByte, ZeroByte}

B64(b) == "<" \o b \o ">"
Base64urlStringify(bytes) == [i \in 1..Len(bytes) |-> B64(bytes[i])]
\* never throws: a character outside the alphabet contributes zero bits
Base64urlParse(chars) ==
  [i \in 1..Len(chars) |->
     IF \E b \in ByteUniverse : B64(b) = chars[i]
       THEN CHOOSE b \in ByteUniverse : B64(b) = chars[i]
       ELSE ZeroByte]

(***************************************************************************)
(* HmacSHA256(message, key): a digest of DigestLen bytes that is a         *)
(* function of the key and of the whole message, distinct for distinct     *)
(* (message, key).                                                         *)
(***************************************************************************)
RECURSIVE Flat(_)
Flat(chars) == IF chars = <<>> THEN "" ELSE chars[1] \o Flat(Tail(chars))

HmacSHA256(message, key) ==
  [i \in 1..DigestLen |->
     "mac" \o ToString(i) \o "(" \o key \o "," \o Flat(message) \o ")"]

(***************************************************************************)
(* dayJS(value) and isBefore.  dayJS(undefined) reads the wall clock; a    *)
(* string that is no timestamp, null and an object give an invalid date,   *)
(* which is before nothing.                                                *)
(***************************************************************************)
InvalidDate == -1
Instant(s) == CASE s = "T0" -> 0 [] s = "T1" -> 1 [] s = "T2" -> 2
NumberValue(n) == CASE n = "1" -> 1 [] n = "7" -> 7 [] OTHER -> InvalidDate

dayJS(value, clock) ==
  CASE value[1] = "undefined" -> clock
    [] value[1] = "string" ->
         IF value[2] \in TimeStrings THEN Instant(value[2]) ELSE InvalidDate
    [] value[1] = "number" -> NumberValue(value[2])
    [] OTHER -> InvalidDate

\* the comparison the other way round
isAfter(a, b) == a # InvalidDate /\ b # InvalidDate /\ a > b

isBefore(a, b) == a # InvalidDate /\ b # InvalidDate /\ a < b

(***************************************************************************)
(* String.prototype.split(':')                                             *)
(***************************************************************************)
RECURSIVE Split(_)
Split(s) ==
  IF \A i \in 1..Len(s) : s[i] # ":" THEN <<s>>
  ELSE LET i == CHOOSE i \in 1..Len(s) :
                  s[i] = ":" /\ \A j \in 1..(i - 1) : s[j] # ":"
       IN <<SubSeq(s, 1, i - 1)>> \o Split(SubSeq(s, i + 1, Len(s)))

SegmentCount == 3

(***************************************************************************)
(* signToken                                                               *)
(***************************************************************************)
\* signToken without its first line
signTokenUnchecked(sec, pl) ==
  LET dataString == jsonStringify(pl) IN
  IF dataString.st # "ok"
    THEN [st |-> "throw", err |-> "TypeError", token |-> <<>>]
  ELSE
    LET base64DataString == Base64urlStringify(Utf8parse(dataString.text))
        hmac == HmacSHA256(base64DataString, sec.secretValue)
        signString == Base64urlStringify(hmac)
    IN [st |-> "ok", err |-> "",
        token |-> sec.secretKey \o <<":">> \o signString
                    \o <<":">> \o base64DataString]

signToken(sec, pl) ==
  IF ~isValidSignPayload(pl)
    THEN [st |-> "throw", err |-> "invalid payload", token |-> <<>>]
  ELSE LET dataString == jsonStringify(pl) IN
    IF dataString.st = "throw"
      THEN [st |-> "throw", err |-> "TypeError", token |-> <<>>]
    ELSE
      LET base64DataString == Base64urlStringify(Utf8parse(dataString.text))
          hmac == HmacSHA256(base64DataString, sec.secretValue)
          signString == Base64urlStringify(hmac)
      IN [st |-> "ok", err |-> "",
          token |-> sec.secretKey \o <<":">> \o signString
                      \o <<":">> \o base64DataString]

(***************************************************************************)
(* parseToken: resolves to null or to {secretKey, payload}, or rejects     *)
(* when enc.Utf8.stringify throws, which happens outside the try block.    *)
(***************************************************************************)
parseToken(tok) ==
  LET parts == Split(tok) IN
  IF Len(parts) # SegmentCount
    THEN [st |-> "null", secretKey |-> <<>>, payload |-> Null]
  ELSE
    LET decodedDataString == Utf8stringify(Base64urlParse(parts[3])) IN
    IF decodedDataString.st = "throw"
      THEN [st |-> "throw", secretKey |-> <<>>, payload |-> Null]
    ELSE LET json == JSONparse(decodedDataString.text) IN
      IF json.ok
        THEN [st |-> "value", secretKey |-> parts[1], payload |-> json.val]
        ELSE [st |-> "null", secretKey |-> <<>>, payload |-> Null]

(***************************************************************************)
(* The last expression of verifyToken (line 96).                           *)
(***************************************************************************)
recreatedSignString(tok, sec) ==
  Base64urlStringify(HmacSHA256(Split(tok)[3], sec.secretValue))

verifyDecision(tok, sec) ==
  /\ recreatedSignString(tok, sec) # Split(tok)[2]
  /\ Split(tok)[1] = sec.secretKey

(***************************************************************************)
(* Inputs: the secrets, the payloads handed to signToken and the token     *)
(* strings handed to parseToken and verifyToken.                           *)
(***************************************************************************)
Secrets ==
  { [secretKey |-> <<"k", "1">>, secretValue |-> "v1"],
    [secretKey |-> <<"k", ":">>, secretValue |-> "v2"] }

Reverse(seq) == [i \in 1..Len(seq) |-> seq[Len(seq) + 1 - i]]
Ord(seq, rev) == IF rev THEN Reverse(seq) ELSE seq

\* exp and extra are sequences of fields; rev reverses the insertion order
MakePayload(exp, extra, rev) ==
  Obj(Ord(<< <<"createdTime", Str("T0")>>,
             <<"data", Obj(Ord(<< <<"userId", Str("u1")>>,
                                  <<"username", Str("Zoe")>> >> \o extra, rev))>> >>
          \o exp, rev))

Expiries ==
  { <<>>, << <<"expiredTime", Str("T1")>> >>, << <<"expiredTime", Str("T2")>> >> }

Extras(rev) ==
  { << <<"age", Num("7")>> >>,
    << <<"age", Num("NaN")>> >>,
    << <<"age", Undefined>> >>,
    << <<"age", BigInt>> >>,
    << <<"age", Obj(Ord(<< <<"b", Num("1")>>, <<"a", Str("u1")>> >>, rev))>> >> }

ValidPayloads ==
  {MakePayload(exp, <<>>, rev) : exp \in Expiries, rev \in BOOLEAN}
    \cup UNION {{MakePayload(<<>>, extra, rev) : extra \in Extras(rev)} : rev \in BOOLEAN}

GoodData == Obj(<< <<"userId", Str("u1")>>, <<"username", Str("Zoe")>> >>)

InvalidPayloads ==
  { Str("u1"),
    Null,
    Obj(<< <<"createdTime", Str("T0")>> >>),
    Obj(<< <<"createdTime", Str("T0")>>, <<"data", Str("u1")>> >>),
    Obj(<< <<"createdTime", Str("T0")>>, <<"data", Null>> >>),
    Obj(<< <<"createdTime", Str("T0")>>, <<"data", Obj(<<>>)>> >>),
    Obj(<< <<"createdTime", Str("T0")>>,
           <<"data", Obj(<< <<"username", Str("Zoe")>> >>)>> >>),
    Obj(<< <<"createdTime", Str("T0")>>,
           <<"data", Obj(<< <<"userId", Num("7")>>, <<"username", Str("Zoe")>> >>)>> >>),
    Obj(<< <<"createdTime", Str("T0")>>,
           <<"data", Obj(<< <<"userId", Str("u1")>> >>)>> >>),
    Obj(<< <<"createdTime", Str("T0")>>,
           <<"data", Obj(<< <<"userId", Str("u1")>>, <<"username", Null>> >>)>> >>),
    Obj(<< <<"data", GoodData>> >>),
    Obj(<< <<"createdTime", Num("7")>>, <<"data", GoodData>> >>),
    Obj(<< <<"createdTime", Str("T0")>>, <<"data", GoodData>>,
           <<"expiredTime", Num("7")>> >>),
    Obj(<< <<"createdTime", Str("T0")>>, <<"data", GoodData>>,
           <<"expiredTime", Null>> >>) }

PayloadUniverse == ValidPayloads \cup InvalidPayloads

\* token strings that signToken did not make
ForgedTokens(key) ==
  { <<>>,
    key,
    key \o <<":", "A">>,
    key \o <<":", "A", ":">>,
    key \o <<":", "A", ":", "!">>,
    key \o <<":", "A", ":", B64(InvalidByte)>>,
    key \o <<":", "A", ":", B64("null")>>,
    key \o <<":", "A", ":", B64("7")>>,
    key \o <<":", "A", ":", B64("null"), ":", "A">> }

\* the characters an attacker writes over one character of a token
TamperChars == {"A", B64(InvalidByte), B64(StrLex("T2"))}

(***************************************************************************)
(* State.                                                                  *)
(***************************************************************************)
VARIABLES
  now,       \* the wall clock
  secret,    \* the SignSecret of every call
  payload,   \* the payload handed to signToken and isExpiredTokenPayload
  token,     \* the token string handed to parseToken and verifyToken
  origin,    \* "none", "signed", "failed", "tampered" or "forged"
  pc,        \* "idle", or the position of the running call: "read1", "read2"
  op,        \* the running call: "verify" or "isExpired"
  expArg,    \* the argument of the running isExpiredTokenPayload
  t0,        \* the clock when the running call began
  t1,        \* dayJS(payload.expiredTime) of the running call
  result,    \* the outcome of the last call, once it has completed
  parsed,    \* what the last parseToken resolved to
  rejected   \* some verifyToken(token, secret) has returned false

vars ==
  <<now, secret, payload, token, origin, pc, op, expArg, t0, t1, result,
    parsed, rejected>>

NoResult == [op |-> "none", out |-> "none", t0 |-> 0]
NotParsed == [st |-> "none", secretKey |-> <<>>, payload |-> Null]

Init ==
  /\ now = 0
  /\ secret \in Secrets
  /\ payload \in PayloadUniverse
  /\ token = <<>>
  /\ origin = "none"
  /\ pc = "idle"
  /\ op = "none"
  /\ expArg = Null
  /\ t0 = 0
  /\ t1 = 0
  /\ result = NoResult
  /\ parsed = NotParsed
  /\ rejected = FALSE

Bool(b) == IF b THEN "true" ELSE "false"

\* the running call completes with outcome out
Complete(o, out, began) ==
  /\ pc' = "idle"
  /\ op' = "none"
  /\ expArg' = Null
  /\ t0' = 0
  /\ t1' = 0
  /\ result' = [op |-> o, out |-> out, t0 |-> began]
  /\ parsed' = NotParsed
  /\ rejected' = (rejected \/ (o = "verify" /\ out = "false"))

\* the wall clock advances, also while a call is running
Tick ==
  /\ now < MaxClock
  /\ now' = now + 1
  /\ UNCHANGED <<secret, payload, token, origin, pc, op, expArg, t0, t1,
                 result, parsed, rejected>>

Sign ==
  /\ pc = "idle"
  /\ origin = "none"
  /\ LET out == signToken(secret, payload) IN
       /\ token' = out.token
       /\ origin' = IF out.st = "ok" THEN "signed" ELSE "failed"
       /\ result' = [op |-> "sign", out |-> out.st, t0 |-> 0]
  /\ UNCHANGED <<now, secret, payload, pc, op, expArg, t0, t1, parsed, rejected>>

Forge ==
  /\ pc = "idle"
  /\ origin = "none"
  /\ \E tok \in ForgedTokens(secret.secretKey) :
       token' = tok
  /\ origin' = "forged"
  /\ UNCHANGED <<now, secret, payload, pc, op, expArg, t0, t1, result, parsed,
                 rejected>>

\* one character of a signed token is overwritten
Tamper ==
  /\ pc = "idle"
  /\ origin = "signed"
  /\ \E i \in 1..Len(token) : \E c \in TamperChars :
       /\ c # token[i]
       /\ token' = [token EXCEPT ![i] = c]
  /\ origin' = "tampered"
  /\ result' = NoResult
  /\ parsed' = NotParsed
  /\ rejected' = FALSE
  /\ UNCHANGED <<now, secret, payload, pc, op, expArg, t0, t1>>

Parse ==
  /\ pc = "idle"
  /\ origin \in {"signed", "tampered", "forged"}
  /\ parsed' = parseToken(token)
  /\ result' = [op |-> "parse", out |-> parsed'.st, t0 |-> 0]
  /\ UNCHANGED <<now, secret, payload, token, origin, pc, op, expArg, t0, t1,
                 rejected>>

\* verifyToken up to the call of isExpiredTokenPayload
VerifyCall ==
  /\ pc = "idle"
  /\ origin \in {"signed", "tampered", "forged"}
  /\ IF Len(Split(token)) # SegmentCount
       THEN Complete("verify", "false", now)
       ELSE LET tokenInfo == parseToken(token) IN
         IF tokenInfo.st = "throw" THEN Complete("verify", "throw", now)
         ELSE IF tokenInfo.st = "null" THEN Complete("verify", "false", now)
         ELSE /\ pc' = "read1"
              /\ op' = "verify"
              /\ expArg' = tokenInfo.payload
              /\ t0' = now
              /\ result' = NoResult
              /\ parsed' = NotParsed
              /\ UNCHANGED <<t1, rejected>>
  /\ UNCHANGED <<now, secret, payload, token, origin>>

IsExpiredCall ==
  /\ pc = "idle"
  /\ isValidSignPayload(payload)
  /\ pc' = "read1"
  /\ op' = "isExpired"
  /\ expArg' = payload
  /\ t0' = now
  /\ result' = NoResult
  /\ parsed' = NotParsed
  /\ UNCHANGED <<now, secret, payload, token, origin, t1, rejected>>

\* dayJS(payload.expiredTime): reading a property of null throws
ExpRead1 ==
  /\ pc = "read1"
  /\ IF expArg = Null
       THEN Complete(op, "throw", t0)
       ELSE /\ t1' = dayJS(Get(expArg, "expiredTime"), now)
            /\ pc' = "read2"
            /\ UNCHANGED <<op, expArg, t0, result, parsed, rejected>>
  /\ UNCHANGED <<now, secret, payload, token, origin>>

\* .isBefore(dayJS()), and for verifyToken the rest of the function
ExpRead2 ==
  /\ pc = "read2"
  /\ LET expired == isBefore(t1, dayJS(Undefined, now)) IN
       IF op = "isExpired" THEN Complete(op, Bool(expired), t0)
       ELSE IF expired THEN Complete(op, "false", t0)
       ELSE Complete(op, Bool(verifyDecision(token, secret)), t0)
  /\ UNCHANGED <<now, secret, payload, token, origin>>

Next ==
  \/ Tick
  \/ Sign
  \/ Forge
  \/ Tamper
  \/ Parse
  \/ VerifyCall
  \/ IsExpiredCall
  \/ ExpRead1
  \/ ExpRead2

Spec == Init /\ [][Next]_vars

(***************************************************************************)
(* Vocabulary of the properties.                                           *)
(***************************************************************************)
\* equality of two values, field for field, whatever the field order.
RECURSIVE SameValue(_, _)
SameValue(a, b) ==
  IF IsObj(a) /\ IsObj(b)
    THEN /\ Keys(a) = Keys(b)
         /\ \A k \in Keys(a) : SameValue(Get(a, k), Get(b, k))
    ELSE a = b

NoColon(key) == \A i \in 1..Len(key) : key[i] # ":"

\* the instant at which payload p expires, InvalidDate when it never does
ExpiryInstant(p) == dayJS(Get(p, "expiredTime"), InvalidDate)
ExpiredAt(p, clock) == ExpiryInstant(p) # InvalidDate /\ ExpiryInstant(p) < clock

\* the token is signToken(secret, payload) with one character of its
\* signature segment or of its payload segment overwritten
TamperedInSignatureOrPayload ==
  /\ origin = "tampered"
  /\ LET signed == signToken(secret, payload).token
         i == CHOOSE i \in 1..Len(signed) : token[i] # signed[i]
     IN i > Len(secret.secretKey) + 1 /\ signed[i] # ":"

\* a value JSON.stringify throws on occurs in value v
RECURSIVE HoldsBigInt(_)
HoldsBigInt(v) ==
  \/ v[1] = "bigint"
  \/ IsObj(v) /\ \E i \in 1..Len(v[2]) : HoldsBigInt(v[2][i][2])

Signed == origin \in {"signed", "tampered"}
SignCalled == origin \in {"signed", "tampered", "failed"}

(***************************************************************************)
(* Properties.                                                             *)
(***************************************************************************)

\* C1: verifyToken(signToken(S, P), S) returns true for every valid payload P
\* and every secret S whose key has no ':', when P.expiredTime is absent or
\* later than the clock.
C1_VerificationSoundness ==
  ( /\ result.op = "verify"
    /\ origin = "signed"
    /\ NoColon(secret.secretKey)
    /\ (ExpiryInstant(payload) = InvalidDate \/ ExpiryInstant(payload) > now) )
  => result.out = "true"

\* C2: verifyToken returns false for a signed token of which one character of
\* the signature segment or of the payload segment was changed.
C2_TamperDetection ==
  ( /\ result.op = "verify"
    /\ NoColon(secret.secretKey)
    /\ TamperedInSignatureOrPayload )
  => result.out = "false"

\* C3: verifyToken returns true only if the second segment is the signature
\* recomputed over the third segment, the parsed payload is not expired and
\* the first segment is secret.secretKey.
C3_AcceptOnlyIfAllHold ==
  (result.op = "verify" /\ result.out = "true")
  => /\ Len(Split(token)) = SegmentCount
     /\ Split(token)[2] = recreatedSignString(token, secret)
     /\ ~ExpiredAt(parseToken(token).payload, result.t0)
     /\ Split(token)[1] = secret.secretKey

\* C4: parseToken and verifyToken never throw (never reject), whatever the
\* token string.
C4_ParseVerifyTotal ==
  result.op \in {"parse", "verify"} => result.out # "throw"

\* C5: for a valid payload whose expiredTime is strictly before the clock,
\* isExpiredTokenPayload returns true and verifyToken of its signed token
\* returns false.
C5_ExpiryEnforcement ==
  /\ ( /\ result.op = "isExpired"
       /\ isValidSignPayload(payload)
       /\ ExpiredAt(payload, result.t0) )
     => result.out = "true"
  /\ ( /\ result.op = "verify"
       /\ origin = "signed"
       /\ ExpiredAt(payload, result.t0) )
     => result.out = "false"

C5_Witness ==
  /\ result.op = "isExpired"
  /\ isValidSignPayload(payload)
  /\ ExpiredAt(payload, result.t0)
  /\ result.out = "true"

\* C6: parseToken(signToken(S, P)) is non-null, carries S.secretKey and a
\* payload equal to P field for field, for every valid payload P and every
\* secret S whose key has no ':'.
C6_RoundTrip ==
  ( /\ result.op = "parse"
    /\ origin = "signed"
    /\ NoColon(secret.secretKey) )
  => /\ parsed.st = "value"
     /\ parsed.secretKey = secret.secretKey
     /\ SameValue(parsed.payload, payload)

\* C7: isExpiredTokenPayload returns false for every payload without
\* expiredTime, also when the clock advances during the call.
C7_AbsentNeverExpired ==
  (result.op = "isExpired" /\ ~HasKey(payload, "expiredTime"))
  => result.out = "false"

\* C8 (as claimed): signToken returns a token if and only if
\* isValidSignPayload(payload) holds.
C8_SignIffValid ==
  SignCalled => (Signed <=> isValidSignPayload(payload))

\* C8 (amended): signToken throws for every payload that fails
\* isValidSignPayload, and returns a token for every valid payload that holds
\* no value JSON.stringify throws on.
C8_SignIffValidAndSerialisable ==
  SignCalled => (Signed <=> (isValidSignPayload(payload) /\ ~HoldsBigInt(payload)))

C8_Witness ==
  /\ origin = "failed"
  /\ result.op = "sign"
  /\ result.out = "throw"
  /\ ~isValidSignPayload(payload)

\* C9: two valid payloads with the same fields and values, built in different
\* insertion orders, are signed to the same token string.
C9_Determinism ==
  origin = "signed"
  => \A other \in ValidPayloads :
       SameValue(other, payload)
       => /\ signToken(secret, other).st = "ok"
          /\ signToken(secret, other).token = token

C9_Witness ==
  /\ origin = "signed"
  /\ \E other \in ValidPayloads :
       /\ other # payload
       /\ SameValue(other, payload)
       /\ signToken(secret, other).token = token

\* C10: once verifyToken(token, secret) has returned false, every later
\* verifyToken(token, secret) returns false.
C10_RejectionPermanent ==
  (rejected /\ result.op = "verify") => result.out = "false"

====
